---- MODULE Spec2Model ----
(***************************************************************************)
(* Potential-flow field of dfheintz/Aircraft_Aerodynamics:                 *)
(*   src/src/flows.py       the canonical flows (UniformFlow, Vortex,      *)
(*                          SourceSink, Doublet)                           *)
(*   src/src/flow_field.py  FlowField: add, add_cylinder, _stream_line,    *)
(*                          _check_has_uniform_flow, the cylinder's        *)
(*                          surface pressure coefficient                   *)
(*                                                                         *)
(* Numbers.  The program computes in float64.  The model computes in       *)
(* decimal fixed point: an integer n stands for n / Scale.  Every          *)
(* operation rounds to the nearest representable value, a magnitude above  *)
(* MaxFinite or a division by zero gives the one non-finite value NaN      *)
(* (float64's inf and nan), and NaN propagates through every operation.    *)
(***************************************************************************)
EXTENDS Integers, Sequences, FiniteSets, TLC

\* ------------------------------------------------------------------------
\* Fixed-point arithmetic standing for float64
\* ------------------------------------------------------------------------

Scale == 10^3
MaxFinite == 2 * 10^6
NaN == -(2^30)
\* the value of an attribute that was never assigned (reading it raises
\* AttributeError)
NoAttr == -(2^30) - 1

Abs(a) == IF a < 0 THEN -a ELSE a

Sgn(a) == IF a < 0 THEN -1 ELSE 1

Finite(a) == a # NaN /\ a # NoAttr

\* a result beyond the largest finite magnitude is non-finite
Fin(a) == IF a > MaxFinite \/ -a > MaxFinite THEN NaN ELSE a

FAdd(a, b) == IF ~Finite(a) \/ ~Finite(b) THEN NaN ELSE Fin(a + b)

FSub(a, b) == IF ~Finite(a) \/ ~Finite(b) THEN NaN ELSE Fin(a - b)

FNeg(a) == IF ~Finite(a) THEN NaN ELSE -a

\* sg * aa * bb / Scale without leaving 32 bits: aa = ah * Scale + al
MulAbs(ah, al, bb, sg) ==
  IF ah # 0 /\ bb > MaxFinite \div ah THEN NaN
  ELSE Fin(sg * (ah * bb + (al * bb + Scale \div 2) \div Scale))

FMul(a, b) ==
  IF ~Finite(a) \/ ~Finite(b) THEN NaN
  ELSE MulAbs(Abs(a) \div Scale, Abs(a) % Scale, Abs(b), Sgn(a) * Sgn(b))

FDiv(a, b) ==
  IF ~Finite(a) \/ ~Finite(b) \/ b = 0 THEN NaN
  ELSE Fin(Sgn(a) * Sgn(b) * ((Abs(a) * Scale + Abs(b) \div 2) \div Abs(b)))

\* comparisons: every comparison with a non-finite value is False
FLe(a, b) == Finite(a) /\ Finite(b) /\ a <= b

FLt(a, b) == Finite(a) /\ Finite(b) /\ a < b

\* an integer literal of the program
Num(n) == n * Scale

RECURSIVE ISqrtIn(_, _, _)
ISqrtIn(n, lo, hi) ==
  IF lo >= hi THEN lo
  ELSE IF ((lo + hi + 1) \div 2) * ((lo + hi + 1) \div 2) <= n
       THEN ISqrtIn(n, (lo + hi + 1) \div 2, hi)
       ELSE ISqrtIn(n, lo, (lo + hi + 1) \div 2 - 1)

\* floor of the square root of a natural number below 2^31
ISqrt(n) == ISqrtIn(n, 0, 46340)

\* np.sqrt
FSqrt(a) == IF ~Finite(a) \/ a < 0 THEN NaN ELSE ISqrt(a * Scale)

\* np.sqrt(x ** 2 + y ** 2); the sum of squares is kept exact while it fits
Hypot(x, y) ==
  IF ~Finite(x) \/ ~Finite(y) THEN NaN
  ELSE IF Abs(x) <= 30000 /\ Abs(y) <= 30000 THEN ISqrt(x * x + y * y)
  ELSE FSqrt(FAdd(FMul(x, x), FMul(y, y)))

\* np.pi
PI == 3142

\* np.arctan on [0, 1]:  z * (pi/4 + 0.273 * (1 - z))
Arctan01(z) == FMul(z, FAdd(PI \div 4, FMul(273, Scale - z)))

\* np.arctan2 in the first quadrant, ax >= 0 and ay >= 0
ArctanQ1(ay, ax) ==
  IF ax = 0 /\ ay = 0 THEN 0
  ELSE IF ay <= ax THEN Arctan01(FDiv(ay, ax))
  ELSE PI \div 2 - Arctan01(FDiv(ax, ay))

Unfold(first, y, x) ==
  (IF y < 0 THEN -1 ELSE 1) * (IF x < 0 THEN PI - first ELSE first)

\* np.arctan2(y, x), in (-pi, pi]; arctan2(0, 0) = 0
Arctan2(y, x) ==
  IF ~Finite(x) \/ ~Finite(y) THEN NaN ELSE Unfold(ArctanQ1(Abs(y), Abs(x)), y, x)

\* 2 * (t + t^3/3 + t^5/5)
LnSeries(t, t2) ==
  2 * (t + FMul(t, t2) \div 3 + FMul(FMul(t, t2), t2) \div 5)

LnOdd(t) == LnSeries(t, FMul(t, t))

\* np.log(m) for m in [1, 2), with t = (m - 1)/(m + 1)
Ln12(m) == LnOdd(FDiv(m - Scale, m + Scale))

\* np.log(m * 2^k); np.log(2) is 0.693
RECURSIVE LnIn(_, _)
LnIn(m, k) ==
  IF m >= 2 * Scale THEN LnIn(m \div 2, k + 1)
  ELSE IF m < Scale THEN LnIn(m * 2, k - 1)
  ELSE k * 693 + Ln12(m)

\* np.log: log(0) is -inf, log of a negative is nan
Ln(a) == IF ~Finite(a) \/ a <= 0 THEN NaN ELSE LnIn(a, 0)

\* (pi^2 - 4 x^2) / (pi^2 + x^2)
CosFrac(x2, p2) == FDiv(p2 - 4 * x2, p2 + x2)

\* np.cos on [-pi/2, pi/2]
CosCore(x) == CosFrac(FMul(x, x), FMul(PI, PI))

\* np.cos on [-pi, pi]
CosWrapped(w) ==
  (IF Abs(w) > PI \div 2 THEN -1 ELSE 1)
    * CosCore(IF Abs(w) > PI \div 2 THEN PI - Abs(w) ELSE w)

\* np.cos
Cos(a) == IF ~Finite(a) THEN NaN ELSE CosWrapped(((a + PI) % (2 * PI)) - PI)

\* np.sin
Sin(a) == IF ~Finite(a) THEN NaN ELSE Cos(a - PI \div 2)

\* ------------------------------------------------------------------------
\* flows.py: the canonical flows
\* ------------------------------------------------------------------------

\* BaseFlow._transform
transform(self, x, y) == <<FSub(x, self.x_0), FSub(y, self.y_0)>>

\* BaseFlow._to_polar_coordinates
to_polar_coordinates(x, y) == [r |-> Hypot(x, y), theta |-> Arctan2(y, x)]

\* r, theta = self._to_polar_coordinates(x, y) with x, y = self._transform(x, y)
Polar(l) == to_polar_coordinates(l[1], l[2])

Rotate(u_r, u_theta, c, s) ==
  << FSub(FMul(u_r, c), FMul(u_theta, s)), FAdd(FMul(u_r, s), FMul(u_theta, c)) >>

\* BaseFlow._to_cartesian_velocity
to_cartesian_velocity(u_r, u_theta, r, theta) ==
  Rotate(u_r, u_theta, Cos(theta), Sin(theta))

\* BaseFlow._to_radians
to_radians(angle_deg) == FDiv(FMul(angle_deg, PI), Num(180))

is_center_never(self, x, y) == FALSE

\* BaseFlow._is_center
is_center(self, x, y) == x = self.x_0 /\ y = self.y_0

\* UniformFlow.__init__: an angle_units that is neither "rad" nor "deg" builds
\* an Exception object and drops it, so self.angle is never assigned
UniformFlow(freestream_velocity, angle, angle_units) ==
  [ kind |-> "UniformFlow", x_0 |-> 0, y_0 |-> 0, strength |-> NoAttr,
    freestream_velocity |-> freestream_velocity,
    angle |-> IF angle_units = "rad" THEN angle
              ELSE IF angle_units = "deg" THEN to_radians(angle)
              ELSE NoAttr ]

\* Vortex.__init__
Vortex(x_0, y_0, strength) ==
  [ kind |-> "Vortex", x_0 |-> x_0, y_0 |-> y_0, strength |-> strength,
    freestream_velocity |-> NoAttr, angle |-> NoAttr ]

\* SourceSink.__init__
SourceSink(x_0, y_0, strength) ==
  [ kind |-> "SourceSink", x_0 |-> x_0, y_0 |-> y_0, strength |-> strength,
    freestream_velocity |-> NoAttr, angle |-> NoAttr ]

\* Doublet.__init__
Doublet(x_0, y_0, strength) ==
  [ kind |-> "Doublet", x_0 |-> x_0, y_0 |-> y_0, strength |-> strength,
    freestream_velocity |-> NoAttr, angle |-> NoAttr ]

\* a read of self.angle that raises AttributeError
AngleMissing(self) == self.kind = "UniformFlow" /\ self.angle = NoAttr

\* UniformFlow.stream_function
UniformFlow_stream_function(self, x, y) ==
  FMul(self.freestream_velocity,
       FSub(FMul(FAdd(self.y_0, y), Cos(self.angle)),
            FMul(FAdd(self.x_0, x), Sin(self.angle))))

\* UniformFlow.potential_function
UniformFlow_potential_function(self, x, y) ==
  FMul(self.freestream_velocity,
       FAdd(FMul(FAdd(self.x_0, x), Cos(self.angle)),
            FMul(FAdd(self.y_0, y), Sin(self.angle))))

\* UniformFlow.velocity
UniformFlow_velocity(self, x, y) ==
  << FMul(self.freestream_velocity, Cos(self.angle)),
     FMul(self.freestream_velocity, Sin(self.angle)) >>

\* strength / 2 / np.pi
Over2Pi(strength) == FDiv(FDiv(strength, Num(2)), PI)

\* Vortex: the values at the polar coordinate p of the local frame
Vortex_psi(self, p) == FDiv(FDiv(FMul(FNeg(self.strength), Ln(p.r)), Num(2)), PI)

Vortex_phi(self, p) == FDiv(FDiv(FMul(self.strength, p.theta), Num(2)), PI)

Vortex_uv(self, p) ==
  to_cartesian_velocity(0, FDiv(Over2Pi(self.strength), p.r), p.r, p.theta)

\* Vortex.stream_function
Vortex_stream_function(self, x, y) ==
  IF is_center(self, x, y) THEN 0 ELSE Vortex_psi(self, Polar(transform(self, x, y)))

\* Vortex.potential_function
Vortex_potential_function(self, x, y) ==
  IF is_center(self, x, y) THEN 0 ELSE Vortex_phi(self, Polar(transform(self, x, y)))

\* Vortex.velocity
Vortex_velocity(self, x, y) ==
  IF is_center(self, x, y) THEN <<0, 0>>
  ELSE Vortex_uv(self, Polar(transform(self, x, y)))

\* SourceSink: the values at the polar coordinate p of the local frame
SourceSink_psi(self, p) == FDiv(FDiv(FMul(self.strength, p.theta), Num(2)), PI)

SourceSink_phi(self, p) == FDiv(FDiv(FMul(self.strength, Ln(p.r)), Num(2)), PI)

SourceSink_uv(self, p) ==
  to_cartesian_velocity(FDiv(Over2Pi(self.strength), p.r), 0, p.r, p.theta)

\* SourceSink.stream_function
SourceSink_stream_function(self, x, y) ==
  IF is_center(self, x, y) THEN 0
  ELSE SourceSink_psi(self, Polar(transform(self, x, y)))

\* SourceSink.potential_function
SourceSink_potential_function(self, x, y) ==
  IF is_center(self, x, y) THEN 0
  ELSE SourceSink_phi(self, Polar(transform(self, x, y)))

\* SourceSink.velocity (the print at r == 0 changes no value)
SourceSink_velocity(self, x, y) ==
  IF is_center(self, x, y) THEN <<0, 0>>
  ELSE SourceSink_uv(self, Polar(transform(self, x, y)))

\* Doublet: the values at the polar coordinate p of the local frame
Doublet_psi(self, p) ==
  FDiv(FDiv(FDiv(FMul(FNeg(self.strength), Sin(p.theta)), Num(2)), PI), p.r)

Doublet_phi(self, p) ==
  FDiv(FDiv(FDiv(FMul(self.strength, Cos(p.theta)), Num(2)), PI), p.r)

\* u_r = strength * cos(theta) / r ** 2, u_theta = strength * sin(theta) / r ** 3
Doublet_uv(self, p) ==
  to_cartesian_velocity(
    FDiv(FMul(self.strength, Cos(p.theta)), FMul(p.r, p.r)),
    FDiv(FMul(self.strength, Sin(p.theta)), FMul(p.r, FMul(p.r, p.r))),
    p.r, p.theta)

\* Doublet.stream_function
Doublet_stream_function(self, x, y) ==
  IF is_center(self, x, y) THEN 0 ELSE Doublet_psi(self, Polar(transform(self, x, y)))

\* Doublet.potential_function
Doublet_potential_function(self, x, y) ==
  IF is_center(self, x, y) THEN 0 ELSE Doublet_phi(self, Polar(transform(self, x, y)))

\* Doublet.velocity
Doublet_velocity(self, x, y) ==
  IF is_center(self, x, y) THEN <<0, 0>>
  ELSE Doublet_uv(self, Polar(transform(self, x, y)))

\* flow.stream_function(x, y), by the class of flow
stream_function(flow, x, y) ==
  CASE flow.kind = "UniformFlow" -> UniformFlow_stream_function(flow, x, y)
    [] flow.kind = "Vortex"      -> Vortex_stream_function(flow, x, y)
    [] flow.kind = "SourceSink"  -> SourceSink_stream_function(flow, x, y)
    [] flow.kind = "Doublet"     -> Doublet_stream_function(flow, x, y)

\* flow.potential_function(x, y), by the class of flow
potential_function(flow, x, y) ==
  CASE flow.kind = "UniformFlow" -> UniformFlow_potential_function(flow, x, y)
    [] flow.kind = "Vortex"      -> Vortex_potential_function(flow, x, y)
    [] flow.kind = "SourceSink"  -> SourceSink_potential_function(flow, x, y)
    [] flow.kind = "Doublet"     -> Doublet_potential_function(flow, x, y)

\* flow.velocity(x, y), by the class of flow
velocity(flow, x, y) ==
  CASE flow.kind = "UniformFlow" -> UniformFlow_velocity(flow, x, y)
    [] flow.kind = "Vortex"      -> Vortex_velocity(flow, x, y)
    [] flow.kind = "SourceSink"  -> SourceSink_velocity(flow, x, y)
    [] flow.kind = "Doublet"     -> Doublet_velocity(flow, x, y)

\* flow.velocity_x(x, y) and flow.velocity_y(x, y): called by add_cylinder
\* and _get_scalar_field, defined by no class of flows.py; the components of
\* velocity
velocity_x(flow, x, y) == velocity(flow, x, y)[1]

velocity_y(flow, x, y) == velocity(flow, x, y)[2]

\* ------------------------------------------------------------------------
\* flow_field.py: FlowField
\* ------------------------------------------------------------------------

\* bounds of the model
MaxFlows == 2
MaxIter == 2
MaxRes == 5

VARIABLES
  flows,            \* self.flows
  has_cylinder,     \* self._has_cylinder
  cylinder_radius,  \* self._cylinder_radius
  cylinder_x_0,     \* self._cylinder_x_0
  cylinder_y_0,     \* self._cylinder_y_0
  pc,               \* "idle", or "stream_line" inside _stream_line's loop
  x_values,         \* _stream_line: x_values
  y_values,         \* _stream_line: y_values
  i,                \* _stream_line: i
  dt,               \* _stream_line: dt
  max_iterations,   \* _stream_line: max_iterations
  ret,              \* the call that ended last and what it gave
  probe             \* a single flow, a point, and the flow's values there

vars == << flows, has_cylinder, cylinder_radius, cylinder_x_0, cylinder_y_0,
           pc, x_values, y_values, i, dt, max_iterations, ret, probe >>

field == << flows, has_cylinder, cylinder_radius, cylinder_x_0, cylinder_y_0 >>

frame == << x_values, y_values, i, dt, max_iterations >>

\* _stream_line ends: its locals do not exist any more
frame_dropped ==
  /\ x_values' = <<>>
  /\ y_values' = <<>>
  /\ i' = 0
  /\ dt' = 0
  /\ max_iterations' = 0

\* FlowField.__init__: size and center
size == <<4, 4>>

center == <<0, 0>>

\* FlowField.__init__: min and max coordinates of the flow field
x_min == FSub(Num(center[1]), FDiv(Num(size[1]), Num(2)))

x_max == FAdd(Num(center[1]), FDiv(Num(size[1]), Num(2)))

y_min == FSub(Num(center[2]), FDiv(Num(size[2]), Num(2)))

y_max == FAdd(Num(center[2]), FDiv(Num(size[2]), Num(2)))

NoError == "none"

\* angular_velocity = None
None == NoAttr

NoFlow == [ kind |-> "none", x_0 |-> 0, y_0 |-> 0, strength |-> NoAttr,
            freestream_velocity |-> NoAttr, angle |-> NoAttr ]

NoCheck == [ raised |-> "not called", uniform |-> NoFlow ]

\* what a call left behind: its name, the exception it raised (NoError when it
\* returned), what _check_has_uniform_flow gave it, its arguments, and the
\* arrays it computed or returned
Ret(op, raised, checked, args, value) ==
  [ op |-> op, raised |-> raised, checked |-> checked, args |-> args,
    value |-> value ]

Args(angular_velocity, xtol, res, x_start, y_start, d, max_it) ==
  [ angular_velocity |-> angular_velocity, xtol |-> xtol, res |-> res,
    x_start |-> x_start, y_start |-> y_start, dt |-> d,
    max_iterations |-> max_it ]

NoArgs == Args(None, 0, 0, 0, 0, 0, 0)

NoProbe == [ stage |-> "off", flow |-> NoFlow, x |-> 0, y |-> 0,
             psi |-> 0, phi |-> 0, vel |-> <<0, 0>> ]

AddVelocity_overwrite(acc, d) == d

\* u and v summed over the flows, in list order, from u = v = 0
AddVelocity(acc, d) == <<FAdd(acc[1], d[1]), FAdd(acc[2], d[2])>>

RECURSIVE SumVelocityFrom(_, _, _, _, _)
SumVelocityFrom(fl, k, x, y, acc) ==
  IF k > Len(fl) THEN acc
  ELSE SumVelocityFrom(fl, k + 1, x, y, AddVelocity(acc, velocity(fl[k], x, y)))

SumVelocity(fl, x, y) == SumVelocityFrom(fl, 1, x, y, <<0, 0>>)

\* some flow.velocity(x, y) of the list raises AttributeError
VelocityRaises(fl) == \E k \in 1..Len(fl) : AngleMissing(fl[k])

\* the positions of the UniformFlow objects in a list of flows
UniformAt(fl) == { k \in 1..Len(fl) : fl[k].kind = "UniformFlow" }

Checked(fl, idx, k) ==
  IF idx = {} THEN [ raised |-> "Must define a Uniform Flow.", uniform |-> NoFlow ]
  ELSE [ raised |-> NoError, uniform |-> fl[k] ]

First(idx) == IF idx = {} THEN 0 ELSE CHOOSE k \in idx : \A m \in idx : k <= m

Last(idx) == IF idx = {} THEN 0 ELSE CHOOSE k \in idx : \A m \in idx : k >= m

check_has_uniform_flow_first(fl) == Checked(fl, UniformAt(fl), First(UniformAt(fl)))

\* FlowField._check_has_uniform_flow: the loop keeps the last UniformFlow of
\* the list; raises only when the list holds none
check_has_uniform_flow(fl) == Checked(fl, UniformAt(fl), Last(UniformAt(fl)))

is_inside_cylinder_closed(x, y, radius, x_0, y_0) ==
  FLe(Hypot(FSub(x, x_0), FSub(y, y_0)), radius)

\* FlowField._is_inside_cylinder
is_inside_cylinder(x, y, radius, x_0, y_0) ==
  FLt(Hypot(FSub(x, x_0), FSub(y, y_0)), radius)

doublet_strength_minus(uniform, radius, x_0, y_0, x) ==
  FSub(velocity_x(Doublet(x_0, y_0, x), FSub(x_0, radius), y_0),
       velocity_x(uniform, FSub(x_0, radius), y_0))

\* add_cylinder: doublet_strength(x), the function fsolve drives to zero
doublet_strength(uniform, radius, x_0, y_0, x) ==
  FAdd(velocity_x(Doublet(x_0, y_0, x), FSub(x_0, radius), y_0),
       velocity_x(uniform, FSub(x_0, radius), y_0))

\* add_cylinder: surface_velocity = 2 * np.pi * angular_velocity * radius
surface_velocity(angular_velocity, radius) ==
  FMul(FMul(FMul(Num(2), PI), angular_velocity), radius)

vortex_strength_no_radius(radius, x_0, y_0, angular_velocity, x) ==
  FSub(velocity_y(Vortex(x_0, y_0, x), FSub(x_0, radius), y_0),
       FMul(FMul(Num(2), PI), angular_velocity))

\* add_cylinder: vortex_strength(x), the function fsolve drives to zero
vortex_strength(radius, x_0, y_0, angular_velocity, x) ==
  FSub(velocity_y(Vortex(x_0, y_0, x), FSub(x_0, radius), y_0),
       surface_velocity(angular_velocity, radius))

\* the function handed to fsolve: add_cylinder's doublet_strength or
\* vortex_strength, closed over the call's arguments
func(f, x) ==
  IF f.name = "doublet_strength"
  THEN doublet_strength(f.uniform, f.radius, f.x_0, f.y_0, x)
  ELSE vortex_strength(f.radius, f.x_0, f.y_0, f.angular_velocity, x)

\* scipy.optimize.fsolve(func, np.ones(1), xtol=xtol) for a function of one
\* unknown: Newton steps with a forward-difference slope, until the step is
\* within xtol relative to the iterate or the function is zero.  When the
\* evaluations run out the last iterate is returned (scipy warns, it does
\* not raise).
MaxFev == 8

RECURSIVE Newton(_, _, _, _)

NewtonNext(f, x, xtol, n, step, next) ==
  IF ~Finite(step) THEN x
  ELSE IF Abs(step) <= FMul(xtol, Abs(next)) THEN next
  ELSE Newton(f, next, xtol, n - 1)

NewtonStep(f, x, xtol, n, step) == NewtonNext(f, x, xtol, n, step, FSub(x, step))

NewtonAt(f, x, xtol, n, fx, fx1) ==
  IF fx = 0 THEN x ELSE NewtonStep(f, x, xtol, n, FDiv(fx, FSub(fx1, fx)))

Newton(f, x, xtol, n) ==
  IF n = 0 THEN x ELSE NewtonAt(f, x, xtol, n, func(f, x), func(f, FAdd(x, Scale)))

fsolve(f, xtol) == Newton(f, Num(1), xtol, MaxFev)

\* the arguments doublet_strength and vortex_strength are closed over
Closure(name, uniform, radius, x_0, y_0, angular_velocity) ==
  [ name |-> name, uniform |-> uniform, radius |-> radius, x_0 |-> x_0,
    y_0 |-> y_0, angular_velocity |-> angular_velocity ]

\* add_cylinder: the exception raised (NoError when the call returns), what
\* _check_has_uniform_flow gave, and self.flows when the call ends
Outcome(raised, chk, fl) == [ raised |-> raised, checked |-> chk, flows |-> fl ]

add_cylinder_solve_prepend(fl, chk, radius, x_0, y_0, angular_velocity, xtol) ==
  IF AngleMissing(chk.uniform) THEN Outcome("AttributeError", chk, fl)
  ELSE IF angular_velocity = None
  THEN Outcome(NoError, chk,
         << Doublet(x_0, y_0,
              fsolve(Closure("doublet_strength", chk.uniform, radius, x_0, y_0,
                             angular_velocity), xtol)) >> \o fl)
  ELSE Outcome(NoError, chk,
         << Vortex(x_0, y_0,
              fsolve(Closure("vortex_strength", chk.uniform, radius, x_0, y_0,
                             angular_velocity), xtol)),
            Doublet(x_0, y_0,
              fsolve(Closure("doublet_strength", chk.uniform, radius, x_0, y_0,
                             angular_velocity), xtol)) >> \o fl)

\* add_cylinder from `doublet = Doublet(x_0, y_0, -1)` on
add_cylinder_solve(fl, chk, radius, x_0, y_0, angular_velocity, xtol) ==
  IF AngleMissing(chk.uniform) THEN Outcome("AttributeError", chk, fl)
  ELSE IF angular_velocity = None
  THEN Outcome(NoError, chk,
         Append(fl, Doublet(x_0, y_0,
           fsolve(Closure("doublet_strength", chk.uniform, radius, x_0, y_0,
                          angular_velocity), xtol))))
  ELSE Outcome(NoError, chk,
         Append(Append(fl, Doublet(x_0, y_0,
           fsolve(Closure("doublet_strength", chk.uniform, radius, x_0, y_0,
                          angular_velocity), xtol))),
           Vortex(x_0, y_0,
             fsolve(Closure("vortex_strength", chk.uniform, radius, x_0, y_0,
                            angular_velocity), xtol))))

add_cylinder_checked_late(fl, chk, radius, x_0, y_0, angular_velocity, xtol) ==
  IF chk.raised # NoError
  THEN Outcome(chk.raised, chk, Append(fl, Doublet(x_0, y_0, Num(-1))))
  ELSE add_cylinder_solve(fl, chk, radius, x_0, y_0, angular_velocity, xtol)

\* add_cylinder from `uniform = self._check_has_uniform_flow()` on
add_cylinder_checked(fl, chk, radius, x_0, y_0, angular_velocity, xtol) ==
  IF chk.raised # NoError THEN Outcome(chk.raised, chk, fl)
  ELSE add_cylinder_solve(fl, chk, radius, x_0, y_0, angular_velocity, xtol)

add_cylinder_flows(fl, radius, x_0, y_0, angular_velocity, xtol) ==
  add_cylinder_checked(fl, check_has_uniform_flow(fl), radius, x_0, y_0,
                       angular_velocity, xtol)

\* ------------------------------------------------------------------------
\* inputs of the calls
\* ------------------------------------------------------------------------

FlowInputs ==
  { UniformFlow(Num(2), Num(90), "deg"),
    UniformFlow(Num(1), Num(0), "grad"),
    UniformFlow(Num(10), Num(0), "deg"),
    Vortex(Num(0), Num(0), Num(2)) }

\* radius, (x_0, y_0), angular_velocity
Bodies == { <<Num(1), <<Num(1), Num(0)>>, None>>,
            <<Num(2), <<Num(1), Num(0)>>, Scale \div 2>>,
            <<Num(5), <<Num(0), Num(0)>>, None>>,
            <<Num(-1), <<Num(0), Num(0)>>, None>> }

\* xtol: float = 1e-3
XTols == { Scale \div 1000 }

Seeds == { <<Num(-1), Num(0)>>, <<Num(3), Num(0)>> }

Dts == { Scale \div 2 }

\* ------------------------------------------------------------------------
\* the calls
\* ------------------------------------------------------------------------

Init ==
  /\ flows = <<>>
  /\ has_cylinder = FALSE
  /\ cylinder_radius = Num(-1)
  /\ cylinder_x_0 = Num(0)
  /\ cylinder_y_0 = Num(0)
  /\ pc = "idle"
  /\ x_values = <<>>
  /\ y_values = <<>>
  /\ i = 0
  /\ dt = 0
  /\ max_iterations = 0
  /\ ret = Ret("__init__", NoError, NoCheck, NoArgs, <<>>)
  /\ probe = NoProbe

\* FlowField.add
add(flow) ==
  /\ pc = "idle"
  /\ Len(flows) < MaxFlows
  /\ flows' = Append(flows, flow)
  /\ ret' = Ret("add", NoError, NoCheck, NoArgs, <<>>)
  /\ UNCHANGED << has_cylinder, cylinder_radius, cylinder_x_0, cylinder_y_0,
                  pc, frame, probe >>

\* FlowField.add_cylinder
add_cylinder(radius, x_0, y_0, angular_velocity, xtol) ==
  /\ pc = "idle"
  /\ Len(flows) < MaxFlows
  /\ cylinder_radius' = radius
  /\ has_cylinder' = TRUE
  /\ cylinder_x_0' = x_0
  /\ cylinder_y_0' = y_0
  /\ \E r \in { add_cylinder_flows(flows, radius, x_0, y_0, angular_velocity, xtol) } :
       /\ flows' = r.flows
       /\ ret' = Ret("add_cylinder", r.raised, r.checked,
                     Args(angular_velocity, xtol, 0, 0, 0, 0, 0), <<>>)
  /\ UNCHANGED << pc, frame, probe >>

loop_condition_iterations_only(xs, ys, n, max_it) ==
  /\ Len(xs) = Len(ys)
  /\ n < max_it

loop_condition_do_while(xs, ys, n, max_it) ==
  \/ Len(xs) = 1
  \/ /\ FLe(y_min, ys[Len(ys)]) /\ FLe(ys[Len(ys)], y_max)
     /\ FLe(x_min, xs[Len(xs)]) /\ FLe(xs[Len(xs)], x_max)
     /\ n < max_it

loop_condition_off_by_one(xs, ys, n, max_it) ==
  /\ FLe(y_min, ys[Len(ys)]) /\ FLe(ys[Len(ys)], y_max)
  /\ FLe(x_min, xs[Len(xs)]) /\ FLe(xs[Len(xs)], x_max)
  /\ n <= max_it

\* _stream_line: the condition of the while loop
loop_condition(xs, ys, n, max_it) ==
  /\ FLe(y_min, ys[Len(ys)]) /\ FLe(ys[Len(ys)], y_max)
  /\ FLe(x_min, xs[Len(xs)]) /\ FLe(xs[Len(xs)], x_max)
  /\ n < max_it

step_velocity_last_flow(fl, x, y) ==
  IF fl = <<>> THEN << 0, 0 >> ELSE velocity(fl[Len(fl)], x, y)

\* _stream_line: u and v of one pass of the loop body; the body sums
\* flow.velocity over self.flows and never asks _is_inside_cylinder
step_velocity(fl, x, y) == SumVelocity(fl, x, y)

stream_line_call_shared_list(x_start, y_start, d, max_it) ==
  /\ pc = "idle"
  /\ pc' = "stream_line"
  /\ x_values' = IF ret.op \in {"_stream_line", "plot_stream_lines"}
                    /\ ret.raised = NoError
                 THEN Append(ret.value[1], x_start) ELSE <<x_start>>
  /\ y_values' = IF ret.op \in {"_stream_line", "plot_stream_lines"}
                    /\ ret.raised = NoError
                 THEN Append(ret.value[2], y_start) ELSE <<y_start>>
  /\ i' = 0
  /\ dt' = d
  /\ max_iterations' = max_it
  /\ ret' = Ret("_stream_line", "running", NoCheck,
                Args(None, 0, 0, x_start, y_start, d, max_it), <<>>)
  /\ UNCHANGED << field, probe >>

\* FlowField._stream_line, up to the loop
stream_line_call(x_start, y_start, d, max_it) ==
  /\ pc = "idle"
  /\ pc' = "stream_line"
  /\ x_values' = <<x_start>>
  /\ y_values' = <<y_start>>
  /\ i' = 0
  /\ dt' = d
  /\ max_iterations' = max_it
  /\ ret' = Ret("_stream_line", "running", NoCheck,
                Args(None, 0, 0, x_start, y_start, d, max_it), <<>>)
  /\ UNCHANGED << field, probe >>

\* FlowField._stream_line: one pass of the loop body
stream_line_step ==
  /\ pc = "stream_line"
  /\ loop_condition(x_values, y_values, i, max_iterations)
  /\ IF VelocityRaises(flows)
     THEN /\ pc' = "idle"
          /\ ret' = Ret("_stream_line", "AttributeError", NoCheck, ret.args, <<>>)
          /\ frame_dropped
          /\ UNCHANGED << field, probe >>
     ELSE \E uv \in { step_velocity(flows, x_values[Len(x_values)],
                                      y_values[Len(y_values)]) } :
            /\ x_values' = Append(x_values,
                                  FAdd(x_values[Len(x_values)], FMul(uv[1], dt)))
            /\ y_values' = Append(y_values,
                                  FAdd(y_values[Len(y_values)], FMul(uv[2], dt)))
            /\ i' = i + 1
            /\ UNCHANGED << field, pc, dt, max_iterations, ret, probe >>

\* FlowField._stream_line: the loop ends, x_values and y_values are returned
\* and the locals of the call are gone
stream_line_return ==
  /\ pc = "stream_line"
  /\ ~loop_condition(x_values, y_values, i, max_iterations)
  /\ pc' = "idle"
  /\ ret' = Ret("_stream_line", NoError, NoCheck, ret.args,
                << x_values, y_values >>)
  /\ frame_dropped
  /\ UNCHANGED << field, probe >>

\* plot_pressure_coefficient_cylinder: angles = np.linspace(0, 2 * np.pi, res)
angles(res) ==
  [ k \in 1..res |->
      IF res = 1 THEN 0 ELSE FDiv(FMul(Num(k - 1), FMul(Num(2), PI)), Num(res - 1)) ]

\* plot_pressure_coefficient_cylinder: the point sampled at angle theta
surface_point(theta, radius, x_0, y_0) ==
  << FSub(FMul(radius, Cos(theta)), x_0), FSub(FMul(radius, Sin(theta)), y_0) >>

\* 1 - (velocity / uniform.freestream_velocity) ** 2
OneMinusSquare(q) == FSub(Num(1), FMul(q, q))

Speed(uv) == Hypot(uv[1], uv[2])

\* plot_pressure_coefficient_cylinder: surface[i], from the velocity summed
\* over self.flows at the point pt
pressure_coefficient(fl, uniform, pt) ==
  OneMinusSquare(FDiv(Speed(SumVelocity(fl, pt[1], pt[2])), uniform.freestream_velocity))

\* plot_pressure_coefficient_cylinder: `if not self._has_cylinder:` builds an
\* Exception object and drops it; nothing is raised
no_cylinder(has) == NoError

Surface(raised, chk, surface) ==
  [ raised |-> raised, checked |-> chk, surface |-> surface ]

\* plot_pressure_coefficient_cylinder from the uniform-flow check on
surface_checked(fl, chk, radius, x_0, y_0, res, ang) ==
  IF chk.raised # NoError THEN Surface(chk.raised, chk, <<>>)
  ELSE IF res > 0 /\ VelocityRaises(fl) THEN Surface("AttributeError", chk, <<>>)
  ELSE Surface(NoError, chk,
         [ k \in 1..res |->
             pressure_coefficient(fl, chk.uniform,
                                  surface_point(ang[k], radius, x_0, y_0)) ])

\* plot_pressure_coefficient_cylinder up to the plotting: the exception raised
\* (NoError when none) and the surface array
surface_pressure(fl, has, radius, x_0, y_0, res) ==
  IF no_cylinder(has) # NoError THEN Surface(no_cylinder(has), NoCheck, <<>>)
  ELSE surface_checked(fl, check_has_uniform_flow(fl), radius, x_0, y_0, res,
                       angles(res))

\* FlowField.plot_pressure_coefficient_cylinder
plot_pressure_coefficient_cylinder(res) ==
  /\ pc = "idle"
  /\ \E r \in { surface_pressure(flows, has_cylinder, cylinder_radius,
                                 cylinder_x_0, cylinder_y_0, res) } :
       ret' = Ret("plot_pressure_coefficient_cylinder", r.raised, r.checked,
                  Args(None, 0, res, 0, 0, 0, 0), r.surface)
  /\ UNCHANGED << field, pc, frame, probe >>

\* FlowField.__init__: resolution when none is passed
resolution == << size[1] + 1, size[2] + 1 >>

\* np.linspace(lo, hi, n)
linspace(lo, hi, n) ==
  [ k \in 1..n |->
      IF n = 1 THEN lo
      ELSE FAdd(lo, FDiv(FMul(Num(k - 1), FSub(hi, lo)), Num(n - 1))) ]

\* plot_velocity: x_values and y_values of the grid
grid_x == linspace(x_min, x_max, resolution[1])

grid_y == linspace(y_min, y_max, resolution[2])

\* plot_velocity, _get_scalar_field: the test that masks a grid point
masked(has, radius, x_0, y_0, x, y) ==
  is_inside_cylinder(x, y, radius, x_0, y_0) /\ has

\* plot_velocity: (u_values[j, i], v_values[j, i]) at the grid point (x, y)
grid_velocity(fl, has, radius, x_0, y_0, x, y) ==
  IF masked(has, radius, x_0, y_0, x, y) THEN << 0, 0 >>
  ELSE SumVelocity(fl, x, y)

\* plot_velocity: some grid point is not masked, so flow.velocity is called
SomeUnmasked(has, radius, x_0, y_0) ==
  \E ix \in DOMAIN grid_x, jy \in DOMAIN grid_y :
    ~masked(has, radius, x_0, y_0, grid_x[ix], grid_y[jy])

\* plot_velocity up to the plotting: the exception raised (NoError when none)
\* and the arrays u_values, v_values as rows of (u, v)
velocity_field(fl, has, radius, x_0, y_0) ==
  IF VelocityRaises(fl) /\ SomeUnmasked(has, radius, x_0, y_0)
  THEN Surface("AttributeError", NoCheck, <<>>)
  ELSE Surface(NoError, NoCheck,
         [ jy \in DOMAIN grid_y |->
             [ ix \in DOMAIN grid_x |->
                 grid_velocity(fl, has, radius, x_0, y_0, grid_x[ix], grid_y[jy]) ] ])

\* FlowField.plot_velocity
plot_velocity ==
  /\ pc = "idle"
  /\ \E r \in { velocity_field(flows, has_cylinder, cylinder_radius,
                               cylinder_x_0, cylinder_y_0) } :
       ret' = Ret("plot_velocity", r.raised, r.checked, NoArgs, r.surface)
  /\ UNCHANGED << field, pc, frame, probe >>

\* _get_scalar_field: method = getattr(flow, function); method(x, y)
method(flow, function, x, y) ==
  IF function = "stream_function" THEN stream_function(flow, x, y)
  ELSE potential_function(flow, x, y)

\* _get_scalar_field: z_values[j, i] summed over the flows, in list order
RECURSIVE SumScalarFrom(_, _, _, _, _, _)
SumScalarFrom(fl, function, k, x, y, acc) ==
  IF k > Len(fl) THEN acc
  ELSE SumScalarFrom(fl, function, k + 1, x, y,
                     FAdd(acc, method(fl[k], function, x, y)))

SumScalar(fl, function, x, y) == SumScalarFrom(fl, function, 1, x, y, 0)

Next ==
  \/ \E flow \in FlowInputs : add(flow)
  \/ \E b \in Bodies, xtol \in XTols :
       add_cylinder(b[1], b[2][1], b[2][2], b[3], xtol)
  \/ \E s \in Seeds, d \in Dts, max_it \in 0..MaxIter :
       stream_line_call(s[1], s[2], d, max_it)
  \/ stream_line_step
  \/ stream_line_return
  \/ plot_pressure_coefficient_cylinder(MaxRes)
  \/ plot_velocity

Spec == Init /\ [][Next]_vars

\* a pass of the loop of _stream_line can be taken: this is
\* ENABLED <<stream_line_step>>_vars, every pass changes i or pc
stream_line_step_enabled ==
  pc = "stream_line" /\ loop_condition(x_values, y_values, i, max_iterations)

\* _stream_line is straight-line code run by the one thread that called it:
\* a pass of the loop or the return that can be taken is taken (weak
\* fairness of stream_line_step and of stream_line_return)
SpecFair ==
  /\ Spec
  /\ ([]<>(~stream_line_step_enabled) \/ []<><<stream_line_step>>_vars)
  /\ WF_vars(stream_line_return)

\* ------------------------------------------------------------------------
\* the canonical flows on their own: one flow, one point, its three values
\* ------------------------------------------------------------------------

ProbeCoords == { Num(-1), Num(0), Num(2) }

ProbeStrengths == { Num(-1), Num(2) }

ProbeFlows ==
  UNION { { Vortex(x, y, g), SourceSink(x, y, g), Doublet(x, y, g) } :
          <<x, y, g>> \in ProbeCoords \X ProbeCoords \X ProbeStrengths }

InitFlows ==
  /\ flows = <<>>
  /\ has_cylinder = FALSE
  /\ cylinder_radius = Num(-1)
  /\ cylinder_x_0 = Num(0)
  /\ cylinder_y_0 = Num(0)
  /\ pc = "idle"
  /\ x_values = <<>>
  /\ y_values = <<>>
  /\ i = 0
  /\ dt = 0
  /\ max_iterations = 0
  /\ ret = Ret("__init__", NoError, NoCheck, NoArgs, <<>>)
  /\ \E flow \in ProbeFlows, x \in ProbeCoords, y \in ProbeCoords :
       probe = [ NoProbe EXCEPT !.stage = "input", !.flow = flow, !.x = x, !.y = y ]

\* flow.stream_function(x, y), flow.potential_function(x, y), flow.velocity(x, y)
evaluate ==
  /\ probe.stage = "input"
  /\ probe' = [ probe EXCEPT
                  !.stage = "done",
                  !.psi = stream_function(probe.flow, probe.x, probe.y),
                  !.phi = potential_function(probe.flow, probe.x, probe.y),
                  !.vel = velocity(probe.flow, probe.x, probe.y) ]
  /\ UNCHANGED << field, pc, frame, ret >>

NextFlows == evaluate

SpecFlows == InitFlows /\ [][NextFlows]_vars

\* ------------------------------------------------------------------------
\* the sums over a list of flows on their own: two lists, one point
\* ------------------------------------------------------------------------

SumFlows ==
  { UniformFlow(Num(2), Num(90), "deg"), Vortex(Num(0), Num(0), Num(2)),
    SourceSink(Num(-1), Num(0), Num(2)), Doublet(Num(2), Num(0), Num(-1)) }

SumLists == { <<>> } \cup { << f >> : f \in SumFlows }
              \cup { << f, g >> : << f, g >> \in SumFlows \X SumFlows }

SumPoints == { << Num(-1), Num(0) >>, << Num(0), Num(0) >>, << Num(2), Num(-1) >> }

\* what the loops over self.flows give at (x, y): the velocity of
\* plot_velocity and _stream_line, the scalars of _get_scalar_field
Sums(fl, x, y) ==
  [ vel |-> SumVelocity(fl, x, y),
    psi |-> SumScalar(fl, "stream_function", x, y),
    phi |-> SumScalar(fl, "potential_function", x, y) ]

InitSum ==
  /\ flows = <<>>
  /\ has_cylinder = FALSE
  /\ cylinder_radius = Num(-1)
  /\ cylinder_x_0 = Num(0)
  /\ cylinder_y_0 = Num(0)
  /\ pc = "idle"
  /\ x_values = <<>>
  /\ y_values = <<>>
  /\ i = 0
  /\ dt = 0
  /\ max_iterations = 0
  /\ ret = Ret("__init__", NoError, NoCheck, NoArgs, <<>>)
  /\ \E a \in SumLists, b \in SumLists, pt \in SumPoints :
       probe = [ stage |-> "lists", a |-> a, b |-> b, x |-> pt[1], y |-> pt[2],
                 whole |-> Sums(<<>>, 0, 0), first |-> Sums(<<>>, 0, 0),
                 second |-> Sums(<<>>, 0, 0) ]

\* the loops over self.flows run on a \o b, on a and on b
superpose ==
  /\ probe.stage = "lists"
  /\ probe' = [ probe EXCEPT
                  !.stage = "summed",
                  !.whole = Sums(probe.a \o probe.b, probe.x, probe.y),
                  !.first = Sums(probe.a, probe.x, probe.y),
                  !.second = Sums(probe.b, probe.x, probe.y) ]
  /\ UNCHANGED << field, pc, frame, ret >>

NextSum == superpose

SpecSum == InitSum /\ [][NextSum]_vars

\* ------------------------------------------------------------------------
\* _stream_line called again and again on a field that no call changes
\* ------------------------------------------------------------------------

Field(fl, has, radius, x_0, y_0) ==
  [ flows |-> fl, has_cylinder |-> has, cylinder_radius |-> radius,
    cylinder_x_0 |-> x_0, cylinder_y_0 |-> y_0 ]

\* fields as add and add_cylinder leave them
TraceFields ==
  { Field(<<>>, FALSE, Num(-1), Num(0), Num(0)),
    Field(<< UniformFlow(Num(2), Num(90), "deg") >>, FALSE, Num(-1), Num(0), Num(0)),
    Field(<< Vortex(Num(0), Num(0), Num(2)) >>, FALSE, Num(-1), Num(0), Num(0)),
    Field(add_cylinder_flows(<< UniformFlow(Num(10), Num(0), "deg") >>, Num(5),
                             Num(0), Num(0), None, Scale \div 1000).flows,
          TRUE, Num(5), Num(0), Num(0)),
    Field(add_cylinder_flows(<< UniformFlow(Num(2), Num(90), "deg") >>, Num(2),
                             Num(1), Num(0), Scale \div 2, Scale \div 1000).flows,
          TRUE, Num(2), Num(1), Num(0)) }

NoTrace == [ stage |-> "none", ret |-> Ret("__init__", NoError, NoCheck, NoArgs, <<>>) ]

InitTrace ==
  /\ \E f \in TraceFields :
       /\ flows = f.flows
       /\ has_cylinder = f.has_cylinder
       /\ cylinder_radius = f.cylinder_radius
       /\ cylinder_x_0 = f.cylinder_x_0
       /\ cylinder_y_0 = f.cylinder_y_0
  /\ pc = "idle"
  /\ x_values = <<>>
  /\ y_values = <<>>
  /\ i = 0
  /\ dt = 0
  /\ max_iterations = 0
  /\ ret = Ret("__init__", NoError, NoCheck, NoArgs, <<>>)
  /\ probe = NoTrace

\* plot_stream_lines: x_values, y_values = self._stream_line(...) and
\* plt.plot(x_values, y_values); the caller holds the lists the call returned
keep_trace ==
  /\ pc = "idle"
  /\ ret.op = "_stream_line"
  /\ ret.raised = NoError
  /\ probe.stage = "none"
  /\ probe' = [ stage |-> "kept", ret |-> ret ]
  /\ ret' = Ret("plot_stream_lines", NoError, NoCheck, ret.args, ret.value)
  /\ UNCHANGED << field, pc, frame >>

NextTrace ==
  \/ \E s \in Seeds, d \in Dts, max_it \in 0..MaxIter :
       stream_line_call(s[1], s[2], d, max_it)
  \/ stream_line_step
  \/ stream_line_return
  \/ keep_trace

SpecTrace == InitTrace /\ [][NextTrace]_vars

\* ------------------------------------------------------------------------
\* properties
\* ------------------------------------------------------------------------

AtOwnOrigin == probe.x = probe.flow.x_0 /\ probe.y = probe.flow.y_0

\* C1: a Vortex, SourceSink or Doublet evaluated at its own origin gives
\* stream_function = 0, potential_function = 0 and velocity = (0, 0), and so
\* none of the non-finite values that a division by r = 0 or log(0) gives
C1_ZeroAtOwnOrigin ==
  (probe.stage = "done" /\ AtOwnOrigin)
    => (probe.psi = 0 /\ probe.phi = 0 /\ probe.vel = <<0, 0>>)

C1_Witness ==
  /\ probe.stage = "done"
  /\ AtOwnOrigin
  /\ probe.flow.kind = "Doublet"
  /\ probe.x = Num(2)
  /\ probe.flow.strength = Num(-1)

\* the call that ended last is an add_cylinder that returned
CylinderAdded == ret.op = "add_cylinder" /\ ret.raised = NoError

\* the upstream point (x_0 - R, y_0) of the registered body
UpstreamX == FSub(cylinder_x_0, cylinder_radius)

\* C2: after add_cylinder(R, x_0, y_0, angular_velocity=None) returns, the
\* x-velocity of the UniformFlow the call solved against plus the x-velocity
\* of the Doublet it appended is 0 at (x_0 - R, y_0), within xtol
C2_UpstreamVelocityZero ==
  (CylinderAdded /\ ret.args.angular_velocity = None /\ cylinder_radius > 0)
    => /\ flows[Len(flows)].kind = "Doublet"
       /\ Abs(FAdd(velocity(ret.checked.uniform, UpstreamX, cylinder_y_0)[1],
                   velocity(flows[Len(flows)], UpstreamX, cylinder_y_0)[1]))
            <= ret.args.xtol

C2_Witness ==
  /\ CylinderAdded
  /\ ret.args.angular_velocity = None
  /\ cylinder_radius = Num(1)
  /\ cylinder_x_0 = Num(1)
  /\ flows[Len(flows)].kind = "Doublet"
  /\ flows[Len(flows)].strength # 0

\* C3: after add_cylinder(R, angular_velocity=w) returns with w given, the
\* velocity of the Vortex it appended, taken at (x_0 - R, y_0), is tangential
\* (its x component, the radial one there, is 0 within xtol) and its
\* y component, the tangential one there, is 2 * pi * w * R within xtol
C3_SurfaceSpeed ==
  (CylinderAdded /\ ret.args.angular_velocity # None /\ cylinder_radius > 0)
    => /\ flows[Len(flows)].kind = "Vortex"
       /\ Abs(velocity(flows[Len(flows)], UpstreamX, cylinder_y_0)[1])
            <= ret.args.xtol
       /\ Abs(FSub(velocity(flows[Len(flows)], UpstreamX, cylinder_y_0)[2],
                   FMul(FMul(FMul(Num(2), PI), ret.args.angular_velocity),
                        cylinder_radius)))
            <= ret.args.xtol

C3_Witness ==
  /\ CylinderAdded
  /\ ret.args.angular_velocity = Scale \div 2
  /\ cylinder_radius = Num(2)
  /\ flows[Len(flows)].kind = "Vortex"
  /\ flows[Len(flows)].strength < Num(-70)

NoUniformFlow(fl) == \A k \in 1..Len(fl) : fl[k].kind # "UniformFlow"

\* C4: add_cylinder on a field whose list holds no UniformFlow raises
\* 'Must define a Uniform Flow.' and leaves the list of flows as it was
C4_NoUniformRaises ==
  [][ (ret'.op = "add_cylinder" /\ pc = "idle" /\ NoUniformFlow(flows))
        => (ret'.raised = "Must define a Uniform Flow." /\ flows' = flows) ]_vars

C4_Witness ==
  /\ ret.op = "add_cylinder"
  /\ ret.raised = "Must define a Uniform Flow."
  /\ Len(flows) > 0
  /\ NoUniformFlow(flows)

\* C5: an add_cylinder that raises leaves the list of flows and the body
\* descriptor (_has_cylinder, _cylinder_radius, _cylinder_x_0, _cylinder_y_0)
\* as they were
C5_FailedCallChangesNothing ==
  [][ (ret'.op = "add_cylinder" /\ pc = "idle" /\ ret'.raised # NoError)
        => field' = field ]_vars

Outside(x, y) ==
  ~(FLe(y_min, y) /\ FLe(y, y_max) /\ FLe(x_min, x) /\ FLe(x, x_max))

StreamLineReturned == ret.op = "_stream_line" /\ ret.raised = NoError /\ pc = "idle"

\* C6: _stream_line returns the seed alone when the seed is outside
\* [x_min, x_max] x [y_min, y_max] and when max_iterations = 0
C6_SeedOnly ==
  (StreamLineReturned
     /\ (Outside(ret.args.x_start, ret.args.y_start)
           \/ ret.args.max_iterations = 0))
    => ret.value = << <<ret.args.x_start>>, <<ret.args.y_start>> >>

C6_Witness ==
  /\ StreamLineReturned
  /\ Outside(ret.args.x_start, ret.args.y_start)
  /\ ret.args.max_iterations > 0
  /\ ~NoUniformFlow(flows)
  /\ Len(ret.value[1]) = 1

\* C7: a step of _stream_line taken from a position strictly inside the
\* registered body uses the velocity (0, 0): the position appended is the
\* position the step started from
C7_NoMotionInsideBody ==
  [][ ( /\ pc = "stream_line" /\ i' = i + 1
        /\ has_cylinder
        /\ is_inside_cylinder(x_values[Len(x_values)], y_values[Len(y_values)],
                              cylinder_radius, cylinder_x_0, cylinder_y_0) )
        => ( /\ x_values'[Len(x_values')] = x_values[Len(x_values)]
             /\ y_values'[Len(y_values')] = y_values[Len(y_values)] ) ]_vars

NumUniform(fl) == Cardinality({ k \in 1..Len(fl) : fl[k].kind = "UniformFlow" })

\* the call that ended last ran _check_has_uniform_flow
CheckRan == ret.checked # NoCheck

\* C8 as claimed: _check_has_uniform_flow returns a flow exactly when the list
\* holds exactly one UniformFlow, and raises otherwise
C8_ExactlyOne ==
  CheckRan => (ret.checked.raised = NoError <=> NumUniform(flows) = 1)

\* C8 as the code has it: _check_has_uniform_flow raises exactly when the
\* list holds no UniformFlow; otherwise it returns the last UniformFlow of
\* the list, however many there are
C8_LastUniform ==
  CheckRan =>
    /\ ret.checked.raised # NoError <=> NumUniform(flows) = 0
    /\ ret.checked.raised = NoError =>
         \E k \in 1..Len(flows) :
           /\ flows[k].kind = "UniformFlow"
           /\ ret.checked.uniform = flows[k]
           /\ \A m \in (k + 1)..Len(flows) : flows[m].kind # "UniformFlow"

C8_Witness ==
  /\ CheckRan
  /\ ret.checked.raised = NoError
  /\ NumUniform(flows) = 2
  /\ flows[1] # flows[2]

\* C9: no UniformFlow object exists whose angle was never assigned (an
\* angle_units other than "rad" and "deg" makes the constructor raise)
C9_NoUniformWithoutAngle ==
  \A k \in 1..Len(flows) : flows[k].kind = "UniformFlow" => flows[k].angle # NoAttr

\* C10: plot_pressure_coefficient_cylinder on a field with no registered
\* cylinder raises and computes no surface pressure value
C10_NoCylinderRaises ==
  (ret.op = "plot_pressure_coefficient_cylinder" /\ ~has_cylinder)
    => (ret.raised # NoError /\ ret.value = <<>>)

\* C11: an add_cylinder call with radius <= 0 never returns normally, so the
\* call that ended last is never an add_cylinder that returned and registered
\* a body of non-positive radius
C11_NonPositiveRadiusRejected ==
  (ret.op = "add_cylinder" /\ cylinder_radius <= 0) => ret.raised # NoError

\* the field of the example: UniformFlow(10, 0 deg), then add_cylinder(5)
ExampleField ==
  /\ CylinderAdded
  /\ Len(flows) = 2
  /\ flows[1] = UniformFlow(Num(10), Num(0), "deg")
  /\ cylinder_radius = Num(5)
  /\ cylinder_x_0 = Num(0)
  /\ cylinder_y_0 = Num(0)

\* the few percent of the example
FewPercent == (3 * Scale * 5) \div 100

\* C12: on the field of the example the pressure coefficient computed from
\* the velocity summed over the flows at the top of the cylinder, (0, 5), is
\* within five percent of -3
C12_TopPressureCoefficient ==
  ExampleField =>
    Abs(FSub(pressure_coefficient(flows, flows[1], << Num(0), Num(5) >>), Num(-3)))
      <= FewPercent

\* the call that ended last is a plot_velocity that sampled the grid
GridSampled == ret.op = "plot_velocity" /\ ret.raised = NoError

Distance(ix, jy) ==
  Hypot(FSub(grid_x[ix], cylinder_x_0), FSub(grid_y[jy], cylinder_y_0))

StrictlyInside(ix, jy) == has_cylinder /\ Distance(ix, jy) < cylinder_radius

\* C18: plot_velocity stores (0, 0) at a grid point when a body is registered
\* and the point's distance to the body centre is strictly less than the
\* radius, and the full sum over the flows at every other grid point, the
\* points at distance = radius and every point of a field without body included
C18_MaskStrictlyInside ==
  GridSampled =>
    \A ix \in DOMAIN grid_x, jy \in DOMAIN grid_y :
      ret.value[jy][ix]
        = IF StrictlyInside(ix, jy) THEN << 0, 0 >>
          ELSE SumVelocity(flows, grid_x[ix], grid_y[jy])

C18_Witness ==
  /\ GridSampled
  /\ has_cylinder
  /\ \E ix \in DOMAIN grid_x, jy \in DOMAIN grid_y :
       /\ Distance(ix, jy) = cylinder_radius
       /\ ret.value[jy][ix] # << 0, 0 >>
  /\ \E ix \in DOMAIN grid_x, jy \in DOMAIN grid_y :
       /\ StrictlyInside(ix, jy)
       /\ SumVelocity(flows, grid_x[ix], grid_y[jy]) # << 0, 0 >>
       /\ ret.value[jy][ix] = << 0, 0 >>

\* C14: a _stream_line call that returns on the field, and with the x_start,
\* y_start, dt and max_iterations, of an earlier call whose lists the caller
\* kept returns the same x and y lists
C14_SameTraceAgain ==
  ( /\ probe.stage = "kept"
    /\ pc = "idle" /\ ret.op = "_stream_line" /\ ret.raised = NoError
    /\ ret.args = probe.ret.args )
    => ret.value = probe.ret.value

\* a call made after the caller kept a trace of three points has returned,
\* with the arguments of the call that returned the kept trace
C14_Witness ==
  /\ probe.stage = "kept"
  /\ pc = "idle" /\ ret.op = "_stream_line" /\ ret.raised = NoError
  /\ ret.args = probe.ret.args
  /\ Len(probe.ret.value[1]) = 3
  /\ probe.ret.value[2][3] # probe.ret.value[2][1]

\* while _stream_line runs the lists hold one point more than passes made,
\* and never more than max_iterations + 1
LoopBounded ==
  pc = "stream_line" =>
    /\ Len(x_values) = i + 1
    /\ Len(y_values) = i + 1
    /\ i <= max_iterations

\* the trace returned ends where the loop condition first failed: it has
\* max_iterations + 1 points or its last point is outside the bounds
ReturnedBounded ==
  StreamLineReturned =>
    /\ Len(ret.value[1]) <= ret.args.max_iterations + 1
    /\ Len(ret.value[2]) = Len(ret.value[1])
    /\ \/ Len(ret.value[1]) = ret.args.max_iterations + 1
       \/ Outside(ret.value[1][Len(ret.value[1])], ret.value[2][Len(ret.value[2])])

\* C15: every call of _stream_line ends, and the lists it returns hold at
\* most max_iterations + 1 points: the loop stops as soon as the last point
\* is outside the bounds or max_iterations passes were made, also when the
\* velocity is zero and the point never moves
C15_StreamLineTerminates ==
  /\ [](LoopBounded /\ ReturnedBounded)
  /\ (pc = "stream_line" ~> pc = "idle")

C15_Witness ==
  /\ StreamLineReturned
  /\ ret.args.max_iterations = 2
  /\ ret.value[1] = << ret.args.x_start, ret.args.x_start, ret.args.x_start >>
  /\ ret.value[2] = << ret.args.y_start, ret.args.y_start, ret.args.y_start >>

\* the point (xs[k], ys[k]) is not strictly inside a registered body
OutsideBody(x, y) ==
  ~(has_cylinder /\ is_inside_cylinder(x, y, cylinder_radius, cylinder_x_0,
                                       cylinder_y_0))

Euler(xs, ys, d) ==
  \A k \in 1..(Len(xs) - 1) :
    OutsideBody(xs[k], ys[k]) =>
      /\ xs[k + 1] = FAdd(xs[k], FMul(SumVelocity(flows, xs[k], ys[k])[1], d))
      /\ ys[k + 1] = FAdd(ys[k], FMul(SumVelocity(flows, xs[k], ys[k])[2], d))

\* C16: in the lists of a running and of a returned _stream_line call every
\* point that follows a point outside the body is that point plus dt times
\* the velocity summed over the flows there, with the dt the call was given
C16_ForwardEuler ==
  /\ pc = "stream_line" => Euler(x_values, y_values, ret.args.dt)
  /\ StreamLineReturned => Euler(ret.value[1], ret.value[2], ret.args.dt)

C16_Witness ==
  /\ StreamLineReturned
  /\ Len(ret.value[1]) = 3
  /\ Len(flows) >= 2
  /\ \A k \in 1..2 : OutsideBody(ret.value[1][k], ret.value[2][k])
  /\ ret.value[2][2] # ret.value[2][1]
  /\ ret.value[2][3] # ret.value[2][2]
  /\ Finite(ret.value[1][3]) /\ Finite(ret.value[2][3])

\* the flow is of the given kind and located at (x_0, y_0)
IsAt(flow, kind, x_0, y_0) ==
  flow.kind = kind /\ flow.x_0 = x_0 /\ flow.y_0 = y_0

SampleDistance(k) ==
  Hypot(FSub(surface_point(angles(ret.args.res)[k], cylinder_radius,
                           cylinder_x_0, cylinder_y_0)[1], cylinder_x_0),
        FSub(surface_point(angles(ret.args.res)[k], cylinder_radius,
                           cylinder_x_0, cylinder_y_0)[2], cylinder_y_0))

\* C19: every point at which plot_pressure_coefficient_cylinder samples the
\* velocity is at distance radius from the registered body centre
\* (_cylinder_x_0, _cylinder_y_0), to within one percent of the radius
C19_SamplesOnSurface ==
  ( /\ ret.op = "plot_pressure_coefficient_cylinder"
    /\ ret.raised = NoError
    /\ has_cylinder
    /\ cylinder_radius > 0 )
    => \A k \in 1..ret.args.res :
         Abs(FSub(SampleDistance(k), cylinder_radius)) * 100 <= cylinder_radius

\* C20: a field with a registered body holds a Doublet located at the
\* registered body centre
C20_BodyHasDoublet ==
  has_cylinder =>
    \E k \in 1..Len(flows) : IsAt(flows[k], "Doublet", cylinder_x_0, cylinder_y_0)

\* C21: in every trace _stream_line returns the first point is the seed
\* (x_start, y_start), x_values and y_values have the same length, and every
\* point but the last lies in the closed domain
\* [x_min, x_max] x [y_min, y_max]; only the last point may be outside
C21_OnlyLastPointOutside ==
  StreamLineReturned =>
    /\ Len(ret.value[1]) >= 1
    /\ Len(ret.value[1]) = Len(ret.value[2])
    /\ ret.value[1][1] = ret.args.x_start
    /\ ret.value[2][1] = ret.args.y_start
    /\ \A k \in 1..(Len(ret.value[1]) - 1) :
         ~Outside(ret.value[1][k], ret.value[2][k])

\* a returned trace of two points: the seed inside the domain, and a last
\* point the step carried across x_max, with iterations still left
C21_Witness ==
  /\ StreamLineReturned
  /\ ret.args.max_iterations = 2
  /\ Len(ret.value[1]) = 2
  /\ ~Outside(ret.value[1][1], ret.value[2][1])
  /\ FLt(x_max, ret.value[1][2])

====
